---- MODULE Spec2Model ----
(***************************************************************************)
(* Model of the BestProxy multi-user Telegram bot.                         *)
(*                                                                         *)
(*   Spec        bot.py: the event handlers cmd_start, cmd_cancel, on_btn  *)
(*               and on_text over the credential table `users` and the     *)
(*               per-user conversation flags `user_data`.                  *)
(*   SpecStore   db.py: set_user_key / get_user_key_enc / delete_user.     *)
(*   SpecClient  bestproxy_client.py: BestProxyClient.call over the        *)
(*               ENDPOINTS registry and a stub transport.                  *)
(*   SpecLoop    bot.py: the handlers of two users on the one event loop   *)
(*               of run_polling, a handler that calls requests.get/post    *)
(*               taking two steps (up to the call, from its return).       *)
(*                                                                         *)
(* A text is a sequence of one-character strings, so that strip(), split() *)
(* and the format checks are computed and not assumed.                     *)
(***************************************************************************)
EXTENDS Integers, Sequences, FiniteSets, TLC

VARIABLES
  users,       \* the SQL table users: a set of rows [tg_user_id, api_key_enc]
  user_data,   \* bot.py: context.user_data of every chat user (a dict of flags)
  ev,          \* bot.py: the event handled last and what its handler did
  st_op,       \* db.py: the store operation executed last and what it returned
  last_put,    \* db.py: per user, the value of the latest put not yet deleted
  cl_in,       \* bestproxy_client.py: the pending call (name, transport outcome)
  cl_out,      \* bestproxy_client.py: the result of the call
  cl_cls,      \* bot.py: ok_api's verdict on the same response
  transport,   \* bestproxy_client.py: requests recorded by the stub transport
  linked,      \* history: per user, the connect input completed since the last disconnect button
  inflight     \* bot.py: the handler the event loop is inside, blocked in requests.get/post

vars == <<users, user_data, ev, st_op, last_put, cl_in, cl_out, cl_cls, transport,
          linked, inflight>>

(***************************************************************************)
(* Bounds                                                                  *)
(***************************************************************************)
\* number of distinct IVs Fernet.encrypt may draw for one call
MaxNonce == 2

\* chat-platform user identities: every identity a row may belong to, and the
\* identities whose events are delivered
UserIds == {101, 202}
ActiveUsers == {101}

(***************************************************************************)
(* Texts                                                                   *)
(***************************************************************************)
T_ws     == <<" ">>
T_key    == <<" ", "K", "1">>
T_two    == <<"U", "S", " ", "C", "A">>
T_limit  == <<"u", "1", " ", "5", "0">>
T_remark == <<"u", "1", "|", "r">>
T_filter == <<"{", "\"", "a", "p", "p", "_", "k", "e", "y", "\"", ":", "\"", "K", "9", "\"", "}">>

\* the raw message texts the chat platform delivers
Texts == {T_ws, T_key, T_two, T_limit, T_remark, T_filter}

IsSpace(c) == c \in {" ", "\t", "\n"}

RECURSIVE LStrip(_)
LStrip(s) == IF s # <<>> /\ IsSpace(Head(s)) THEN LStrip(Tail(s)) ELSE s

RECURSIVE RStrip(_)
RStrip(s) ==
  IF s # <<>> /\ IsSpace(s[Len(s)]) THEN RStrip(SubSeq(s, 1, Len(s) - 1)) ELSE s

\* str.strip()
Strip(s) == RStrip(LStrip(s))

\* the first whitespace-free run of s (s does not start with whitespace)
RECURSIVE TakeWord(_)
TakeWord(s) ==
  IF s = <<>> \/ IsSpace(Head(s)) THEN <<>> ELSE <<Head(s)>> \o TakeWord(Tail(s))

\* str.split(): the whitespace-separated tokens, none of them empty
RECURSIVE Split(_)
Split(s) ==
  LET t == LStrip(s) IN
  IF t = <<>> THEN <<>>
  ELSE LET w == TakeWord(t) IN <<w>> \o Split(SubSeq(t, Len(w) + 1, Len(t)))

\* "|" in text
HasBar(s) == \E i \in 1..Len(s) : s[i] = "|"

FirstBar(s) == CHOOSE i \in 1..Len(s) : s[i] = "|" /\ \A j \in 1..(i - 1) : s[j] # "|"

\* text.split("|", 1), for a text that holds a bar
SplitBar(s) ==
  LET i == FirstBar(s) IN <<SubSeq(s, 1, i - 1), SubSeq(s, i + 1, Len(s))>>

UpperChar(c) ==
  CASE c = "u" -> "U" [] c = "s" -> "S" [] c = "k" -> "K" [] c = "r" -> "R"
    [] c = "a" -> "A" [] c = "p" -> "P" [] c = "e" -> "E" [] c = "y" -> "Y"
    [] OTHER -> c

\* str.upper()
Upper(s) == [i \in 1..Len(s) |-> UpperChar(s[i])]

DigitVal(c) ==
  CASE c = "0" -> 0 [] c = "1" -> 1 [] c = "2" -> 2 [] c = "3" -> 3 [] c = "4" -> 4
    [] c = "5" -> 5 [] c = "6" -> 6 [] c = "7" -> 7 [] c = "8" -> 8 [] c = "9" -> 9
    [] OTHER -> -1

IsDigits(s) == s # <<>> /\ \A i \in 1..Len(s) : DigitVal(s[i]) >= 0

RECURSIVE DigitsVal(_)
DigitsVal(s) ==
  IF s = <<>> THEN 0 ELSE 10 * DigitsVal(SubSeq(s, 1, Len(s) - 1)) + DigitVal(s[Len(s)])

\* int(token): [ok, val]; not ok is ValueError
ParseInt(s) ==
  LET signed == s # <<>> /\ Head(s) \in {"+", "-"}
      body   == IF signed THEN Tail(s) ELSE s
  IN IF IsDigits(body)
       THEN [ok |-> TRUE,
             val |-> IF signed /\ Head(s) = "-" THEN 0 - DigitsVal(body) ELSE DigitsVal(body)]
       ELSE [ok |-> FALSE, val |-> 0]

\* json.loads(text) followed by the isinstance(.., dict) test, on the texts above:
\* [ok, obj]; not ok is the except branch
JsonLoadsDict(s) ==
  CASE s = T_filter -> [ok |-> TRUE, obj |-> [app_key |-> <<"K", "9">>]]
    [] OTHER -> [ok |-> FALSE, obj |-> [none |-> <<>>]]

(***************************************************************************)
(* Credential cipher (Fernet)                                              *)
(***************************************************************************)
\* the key of this process, and the key of an earlier deployment
FERNET_SECRET == "secret"
OLD_SECRET == "rotated"

Nonces == 1..MaxNonce

\* Fernet(key).encrypt(plaintext) with the IV it drew: the token carries the IV
\* and is authenticated under key
FernetEncrypt(key, iv, plaintext) == [k |-> key, iv |-> iv, pt |-> plaintext]

\* Fernet(key).decrypt(token): [ok, pt]; not ok is InvalidToken
FernetDecrypt(key, token) ==
  IF token.k = key
    THEN [ok |-> TRUE, pt |-> token.pt]
    ELSE [ok |-> FALSE, pt |-> <<>>]

\* a NULL or '' column value
EmptyEnc == [k |-> "", iv |-> 0, pt |-> <<>>]

\* truthiness of a column value
Truthy(enc) == enc # EmptyEnc

(***************************************************************************)
(* The users table                                                         *)
(***************************************************************************)
Row(u, enc) == [tg_user_id |-> u, api_key_enc |-> enc]

RowsOf(tbl, u) == {r \in tbl : r.tg_user_id = u}

\* INSERT without conflict handling
SqlInsertOnly(tbl, u, enc) == tbl \cup {Row(u, enc)}

\* an upsert whose UPDATE has no key: it sets the column of every row
SqlUpsertEveryRow(tbl, u, enc) ==
  {[r EXCEPT !.api_key_enc = enc] : r \in tbl} \cup {Row(u, enc)}

\* INSERT INTO users ... ON CONFLICT(tg_user_id) DO UPDATE SET api_key_enc = excluded
SqlUpsert(tbl, u, enc) ==
  IF RowsOf(tbl, u) # {}
    THEN {IF r.tg_user_id = u THEN [r EXCEPT !.api_key_enc = enc] ELSE r : r \in tbl}
    ELSE tbl \cup {Row(u, enc)}

\* DELETE without its WHERE clause
SqlDeleteAll(tbl, u) == {}

\* DELETE FROM users WHERE tg_user_id = ?
SqlDelete(tbl, u) == {r \in tbl : r.tg_user_id # u}

\* SELECT api_key_enc FROM users WHERE tg_user_id = ? ; fetchone():
\* [found, enc]
SqlSelectOne(tbl, u) ==
  IF RowsOf(tbl, u) = {}
    THEN [found |-> FALSE, enc |-> EmptyEnc]
    ELSE [found |-> TRUE, enc |-> (CHOOSE r \in RowsOf(tbl, u) : TRUE).api_key_enc]

(***************************************************************************)
(* bot.py: credential vault                                                *)
(***************************************************************************)
\* db_set_key that binds api_key itself to the statement: the column holds the
\* string as given, under no key
db_set_key_plain(tbl, u, api_key, iv) ==
  SqlUpsert(tbl, u, [k |-> "", iv |-> 0, pt |-> api_key])

\* db_set_key: encrypt under the process key, then upsert
db_set_key(tbl, u, api_key, iv) ==
  SqlUpsert(tbl, u, FernetEncrypt(FERNET_SECRET, iv, api_key))

\* db_get_key that also tests the decrypted key for truthiness
db_get_key_falsy_key(tbl, u) ==
  LET row == SqlSelectOne(tbl, u) IN
  IF ~row.found \/ ~Truthy(row.enc) THEN [st |-> "none", key |-> <<>>]
  ELSE LET p == FernetDecrypt(FERNET_SECRET, row.enc) IN
       IF ~p.ok THEN [st |-> "raise", key |-> <<>>]
       ELSE IF p.pt = <<>> THEN [st |-> "none", key |-> <<>>]
       ELSE [st |-> "ok", key |-> p.pt]

\* db_get_key: [st, key]; st is "none" (returns None), "ok" (returns key) or
\* "raise" (fernet.decrypt raises InvalidToken)
db_get_key(tbl, u) ==
  LET row == SqlSelectOne(tbl, u) IN
  IF ~row.found \/ ~Truthy(row.enc) THEN [st |-> "none", key |-> <<>>]
  ELSE LET p == FernetDecrypt(FERNET_SECRET, row.enc) IN
       IF p.ok THEN [st |-> "ok", key |-> p.pt] ELSE [st |-> "raise", key |-> <<>>]

db_delete_user(tbl, u) == SqlDelete(tbl, u)

\* get_api that tests the key for None only and builds a client from ""
get_api_is_not_none(tbl, u) ==
  LET g == db_get_key(tbl, u) IN
  IF g.st = "raise" THEN [st |-> "raise", app_key |-> <<>>]
  ELSE IF g.st = "none" THEN [st |-> "none", app_key |-> <<>>]
  ELSE [st |-> "ok", app_key |-> g.key]

\* get_api: [st, app_key]; st is "none" (returns None: no key, or `not k`),
\* "ok" (a BestProxyAPI) or "raise"
get_api(tbl, u) ==
  LET g == db_get_key(tbl, u) IN
  IF g.st = "raise" THEN [st |-> "raise", app_key |-> <<>>]
  ELSE IF g.st = "none" \/ g.key = <<>> THEN [st |-> "none", app_key |-> <<>>]
  ELSE [st |-> "ok", app_key |-> g.key]

(***************************************************************************)
(* bot.py: provider API                                                    *)
(***************************************************************************)
API_BASE == "https://api.bestproxy.com"
TIMEOUT == 25

\* a dict with d[k] = v
DictSet(d, k, v) == [x \in (DOMAIN d) \cup {k} |-> IF x = k THEN v ELSE d[x]]

EmptyDict == [x \in {} |-> <<>>]

\* BestProxyAPI.get that sends the key alone and drops the caller's params
ApiGetRequestKeyOnly(app_key, path, params) ==
  [method |-> "GET", url |-> <<API_BASE, path>>,
   payload |-> DictSet(EmptyDict, "app_key", app_key), timeout |-> TIMEOUT]

\* BestProxyAPI.get that sets app_key first and lets the caller's params
\* overwrite it
ApiGetRequestParamsWin(app_key, path, params) ==
  [method |-> "GET", url |-> <<API_BASE, path>>,
   payload |-> IF "app_key" \in DOMAIN params THEN params
               ELSE DictSet(params, "app_key", app_key),
   timeout |-> TIMEOUT]

\* BestProxyAPI.get: the request it sends (app_key merged into the query)
ApiGetRequest(app_key, path, params) ==
  [method |-> "GET", url |-> <<API_BASE, path>>,
   payload |-> DictSet(params, "app_key", app_key), timeout |-> TIMEOUT]

\* BestProxyAPI.post that sends the body as a query of a GET
ApiPostRequestAsGet(app_key, path, body) ==
  [method |-> "GET", url |-> <<API_BASE, path>>,
   payload |-> DictSet(body, "app_key", app_key), timeout |-> TIMEOUT]

\* BestProxyAPI.post: the request it sends (app_key merged into the JSON body)
ApiPostRequest(app_key, path, body) ==
  [method |-> "POST", url |-> <<API_BASE, path>>,
   payload |-> DictSet(body, "app_key", app_key), timeout |-> TIMEOUT]

\* response bodies of the provider
B_ok     == [decodes |-> TRUE,  json |-> [t |-> "dict", d |-> [code |-> 200, msg |-> "success"]]]
B_bad    == [decodes |-> TRUE,  json |-> [t |-> "dict", d |-> [code |-> 401, msg |-> "bad key"]]]
B_alt    == [decodes |-> TRUE,  json |-> [t |-> "dict", d |-> [code |-> 500, message |-> "down"]]]
B_nocode == [decodes |-> TRUE,  json |-> [t |-> "dict", d |-> [data |-> "x"]]]
B_list   == [decodes |-> TRUE,  json |-> [t |-> "list", d |-> [none |-> ""]]]
B_html   == [decodes |-> FALSE, json |-> [t |-> "none", d |-> [none |-> ""]], text |-> "<html>"]

\* the bodies the provider answers the bot with
Bodies == {B_ok, B_bad, B_list, B_html}

HttpStatuses == {200, 400}

\* what the transport does with one request: it fails, or a response arrives
TransportFailure == [kind |-> "raise", http |-> 0, body |-> B_html]
Responses == [kind : {"resp"}, http : HttpStatuses, body : Bodies]
Outcomes == {TransportFailure} \cup Responses

\* BestProxyAPI._pack: {"http": status, "json": decoded body or {"raw": text}}
Pack(r) ==
  [http |-> r.http,
   json |-> IF r.body.decodes THEN r.body.json
            ELSE [t |-> "dict", d |-> [raw |-> r.body.text]]]

\* d.get(k) of a string field, None read as ""
GetStr(d, k) == IF k \in DOMAIN d THEN d[k] ELSE ""

\* the decimal rendering of the numbers that occur
CodeStr(n) ==
  CASE n = 200 -> "200" [] n = 204 -> "204" [] n = 399 -> "399" [] n = 400 -> "400"
    [] n = 401 -> "401" [] n = 404 -> "404" [] n = 500 -> "500" [] OTHER -> "?"

\* ok_api: [raised, ok, msg]; raised is AttributeError (the body is no dict);
\* msg is the message as the sequence of its formatted parts
ok_api(resp) ==
  IF resp.http >= 400
    THEN [raised |-> FALSE, ok |-> FALSE, msg |-> <<"HTTP ", CodeStr(resp.http)>>]
  ELSE IF resp.json.t # "dict"
    THEN [raised |-> TRUE, ok |-> FALSE, msg |-> <<>>]
  ELSE LET j    == resp.json.d
           has  == "code" \in DOMAIN j
           msg  == IF GetStr(j, "msg") # "" THEN GetStr(j, "msg") ELSE GetStr(j, "message")
       IN IF has /\ j.code = 200
            THEN [raised |-> FALSE, ok |-> TRUE, msg |-> <<IF msg # "" THEN msg ELSE "OK">>]
            ELSE [raised |-> FALSE, ok |-> FALSE,
                  msg |-> <<"code=", IF has THEN CodeStr(j.code) ELSE "None", " msg=", msg>>]

(***************************************************************************)
(* bot.py: conversation flags                                              *)
(***************************************************************************)
S_WAIT_KEY           == "wait_key"
S_WAIT_ADD_ACCOUNTS  == "wait_add_accounts"
S_WAIT_DEL_ACCOUNTS  == "wait_del_accounts"
S_WAIT_EN_ACCOUNTS   == "wait_en_accounts"
S_WAIT_DIS_ACCOUNTS  == "wait_dis_accounts"
S_WAIT_CH_PASS       == "wait_ch_pass"
S_WAIT_CH_REMARK     == "wait_ch_remark"
S_WAIT_CH_LIMIT      == "wait_ch_limit"
S_WAIT_FLOW_START    == "wait_flow_start"
S_WAIT_STATIC_FILTER == "wait_static_filter"
S_WAIT_STATE_SEARCH  == "wait_state_search"
S_WAIT_CITY_SEARCH   == "wait_city_search"

\* the order in which on_text tests the flags after S_WAIT_KEY
TextOrder ==
  <<S_WAIT_ADD_ACCOUNTS, S_WAIT_DEL_ACCOUNTS, S_WAIT_EN_ACCOUNTS, S_WAIT_DIS_ACCOUNTS,
    S_WAIT_CH_PASS, S_WAIT_CH_REMARK, S_WAIT_CH_LIMIT, S_WAIT_FLOW_START,
    S_WAIT_STATE_SEARCH, S_WAIT_CITY_SEARCH, S_WAIT_STATIC_FILTER>>

StateKeys == {S_WAIT_KEY} \cup {TextOrder[i] : i \in 1..Len(TextOrder)}

\* clear_states' test with the startswith("wait_") disjunct and the tuple lost
IsStateKeyOnlyKey(k) == k = S_WAIT_KEY

\* clear_states: k.startswith("wait_") or k in (S_WAIT_KEY, ...)
IsStateKey(k) == k \in StateKeys

\* clear_states that pops nothing
clear_states_noop(d) == d

\* clear_states: pop every state key of the dict
clear_states(d) == [k \in {x \in DOMAIN d : ~IsStateKey(x)} |-> d[k]]

\* context.user_data.get(k)
Flag(d, k) == k \in DOMAIN d /\ d[k]

\* the flag of a consumed prompt left as it is
ConsumeKeep(d, k) == d

\* context.user_data[k] = False
Consume(d, k) == DictSet(d, k, FALSE)

\* context.user_data[k] = True
Arm(d, k) == DictSet(d, k, TRUE)

Pending(d) == {k \in StateKeys : Flag(d, k)}

Idle(d) == Pending(d) = {}

(***************************************************************************)
(* bot.py: keyboards (the callback_data of their buttons)                  *)
(***************************************************************************)
\* menu that shows the connected keyboard to everybody
menu_connected_only(connected) ==
  {"acc_menu", "flow_menu", "loc_menu", "static_menu", "disconnect", "help"}

menu(connected) ==
  IF ~connected THEN {"connect", "help"}
  ELSE {"acc_menu", "flow_menu", "loc_menu", "static_menu", "disconnect", "help"}

acc_menu ==
  {"acc_list", "acc_add", "acc_del", "acc_en", "acc_dis", "acc_pass", "acc_remark",
   "acc_limit", "back"}

flow_menu == {"flow_default", "flow_custom", "back"}

loc_menu == {"states_list", "states_search", "cities_list", "cities_search", "back"}

static_menu == {"static_get", "static_filter", "back"}

NoMarkup == {}

\* the buttons that ask for a text, and the flag each arms
PromptOf ==
  [connect |-> S_WAIT_KEY, acc_add |-> S_WAIT_ADD_ACCOUNTS, acc_del |-> S_WAIT_DEL_ACCOUNTS,
   acc_en |-> S_WAIT_EN_ACCOUNTS, acc_dis |-> S_WAIT_DIS_ACCOUNTS, acc_pass |-> S_WAIT_CH_PASS,
   acc_remark |-> S_WAIT_CH_REMARK, acc_limit |-> S_WAIT_CH_LIMIT,
   flow_custom |-> S_WAIT_FLOW_START, states_search |-> S_WAIT_STATE_SEARCH,
   cities_search |-> S_WAIT_CITY_SEARCH, static_filter |-> S_WAIT_STATIC_FILTER]

PromptButtons == DOMAIN PromptOf

\* the buttons that fetch at once: path and the keyboard shown with the result
FetchOf ==
  [acc_list     |-> [path |-> "/gateway/whitelist-account/list", markup |-> acc_menu],
   flow_default |-> [path |-> "/gateway/user-usage-flow/total", markup |-> flow_menu],
   states_list  |-> [path |-> "/gateway/ip/dynamic-states", markup |-> loc_menu],
   cities_list  |-> [path |-> "/gateway/ip/dynamic-citys", markup |-> loc_menu],
   static_get   |-> [path |-> "/gateway/ip/get-static-ip", markup |-> static_menu]]

FetchButtons == DOMAIN FetchOf

\* the buttons that only show a sub-menu
SubMenuOf ==
  [back |-> menu(TRUE), acc_menu |-> acc_menu, flow_menu |-> flow_menu,
   loc_menu |-> loc_menu, static_menu |-> static_menu]

SubMenuButtons == DOMAIN SubMenuOf

\* every callback_data a button event may carry; "bogus" is on no keyboard
Buttons ==
  {"help", "disconnect", "bogus"} \cup PromptButtons \cup FetchButtons \cup SubMenuButtons

(***************************************************************************)
(* bot.py: what a handler did                                              *)
(***************************************************************************)
\* type: the event; branch: the branch of the handler that ran; reply: the
\* message sent ("none": no message); markup: the keyboard sent with it;
\* detail: the formatted ok_api message; reqs: the requests handed to the
\* transport; raised: the exception that ended the handler ("none": it returned);
\* was: the prompts pending when the event arrived
MkEv(type, u, data, text, branch, reply, markup, detail, reqs, raised) ==
  [type |-> type, user |-> u, data |-> data, text |-> text, branch |-> branch,
   reply |-> reply, markup |-> markup, detail |-> detail, reqs |-> reqs,
   raised |-> raised, was |-> {}]

NoEv == MkEv("init", 0, "", <<>>, "", "none", NoMarkup, <<>>, <<>>, "none")

\* the connect input a user completed since their last disconnect button: has:
\* there is one; known: it was made in this run, with the text sent
NoLink == [has |-> FALSE, known |-> FALSE, text |-> <<>>]
EarlierLink == [has |-> TRUE, known |-> FALSE, text |-> <<>>]
LinkAfter(l, e) ==
  IF e.type = "text" /\ e.branch = S_WAIT_KEY
    THEN [has |-> TRUE, known |-> TRUE, text |-> e.text]
  ELSE IF e.type = "btn" /\ e.data = "disconnect" THEN NoLink
  ELSE l

\* an update the chat platform delivers: the handler it selects and its input
Update(type, u, data, raw) == [type |-> type, user |-> u, data |-> data, raw |-> raw]

\* no handler is blocked in an HTTP call
NoFlight == [busy |-> FALSE, user |-> 0, event |-> Update("none", 0, "", <<>>), d0 |-> EmptyDict]

\* the request a text handler builds from the stripped text, or the format
\* error it answers with: [ok, err, req, markup]
TextPlan(kind, text, app_key) ==
  LET parts  == Split(text)
      post(path, body) == ApiPostRequest(app_key, path, body)
      get(path, params) == ApiGetRequest(app_key, path, params)
      good(req, kb) == [ok |-> TRUE, err |-> "", req |-> req, markup |-> kb]
      bad(err) == [ok |-> FALSE, err |-> err, req |-> get("", EmptyDict), markup |-> NoMarkup]
  IN
  CASE kind = S_WAIT_ADD_ACCOUNTS ->
         good(post("/gateway/whitelist-account/add", [accounts |-> text, remark |-> <<>>]), acc_menu)
    [] kind = S_WAIT_DEL_ACCOUNTS ->
         good(post("/gateway/whitelist-account/delete", [accounts |-> text]), acc_menu)
    [] kind = S_WAIT_EN_ACCOUNTS ->
         good(post("/gateway/whitelist-account/enable", [accounts |-> text]), acc_menu)
    [] kind = S_WAIT_DIS_ACCOUNTS ->
         good(post("/gateway/whitelist-account/disable", [accounts |-> text]), acc_menu)
    [] kind = S_WAIT_CH_PASS ->
         IF Len(parts) < 2 THEN bad("format_ch_pass")
         ELSE good(post("/gateway/whitelist-account/change-password",
                        [account |-> Strip(parts[1]), password |-> Strip(parts[2])]), acc_menu)
    [] kind = S_WAIT_CH_REMARK ->
         IF ~HasBar(text) THEN bad("format_ch_remark")
         ELSE good(post("/gateway/whitelist-account/change-remark",
                        [account |-> Strip(SplitBar(text)[1]),
                         remark |-> Strip(SplitBar(text)[2])]), acc_menu)
    [] kind = S_WAIT_CH_LIMIT ->
         IF Len(parts) < 2 THEN bad("format_ch_limit")
         ELSE IF ~ParseInt(Strip(parts[2])).ok THEN bad("limit_not_number")
         ELSE good(post("/gateway/whitelist-account/change-limit",
                        [account |-> Strip(parts[1]),
                         limit |-> ParseInt(Strip(parts[2])).val]), acc_menu)
    [] kind = S_WAIT_FLOW_START ->
         good(get("/gateway/user-usage-flow/total", [start_time |-> text]), flow_menu)
    [] kind = S_WAIT_STATE_SEARCH ->
         good(get("/gateway/ip/dynamic-states/search",
                  [country_code |-> Upper(Strip(text))]), loc_menu)
    [] kind = S_WAIT_CITY_SEARCH ->
         IF Len(parts) < 2 THEN bad("format_city_search")
         ELSE good(get("/gateway/ip/dynamic-citys/search",
                       [country_code |-> Upper(Strip(parts[1])),
                        state |-> Strip(parts[2])]), loc_menu)
    [] kind = S_WAIT_STATIC_FILTER ->
         IF ~JsonLoadsDict(text).ok THEN bad("format_json")
         ELSE good(get("/gateway/ip/get-static-ip", JsonLoadsDict(text).obj), static_menu)

\* the if-chain testing `k in context.user_data` instead of .get(k)
FirstPendingByKey(d) ==
  IF \E i \in 1..Len(TextOrder) : TextOrder[i] \in DOMAIN d
    THEN TextOrder[CHOOSE i \in 1..Len(TextOrder) :
                     TextOrder[i] \in DOMAIN d /\ \A j \in 1..(i - 1) : TextOrder[j] \notin DOMAIN d]
    ELSE "default"

\* the first flag on_text finds set, in the order of its if-chain
FirstPending(d) ==
  IF \E i \in 1..Len(TextOrder) : Flag(d, TextOrder[i])
    THEN TextOrder[CHOOSE i \in 1..Len(TextOrder) :
                     Flag(d, TextOrder[i]) /\ \A j \in 1..(i - 1) : ~Flag(d, TextOrder[j])]
    ELSE "default"

\* on_text: [users, ud, ev]
TextRes(tbl, d, u, raw, out, iv) ==
  LET text == Strip(raw)
      E(branch, reply, markup, reqs, raised) ==
        MkEv("text", u, "", raw, branch, reply, markup, <<>>, reqs, raised)
  IN
  IF Flag(d, S_WAIT_KEY)
    THEN [users |-> db_set_key(tbl, u, text, iv), ud |-> Consume(d, S_WAIT_KEY),
          ev |-> E(S_WAIT_KEY, "connected", NoMarkup, <<>>, "none")]
  ELSE LET api == get_api(tbl, u) IN
  IF api.st = "raise"
    THEN [users |-> tbl, ud |-> d, ev |-> E("get_api", "none", NoMarkup, <<>>, "InvalidToken")]
  ELSE IF api.st = "none"
    THEN [users |-> tbl, ud |-> d, ev |-> E("no_api", "not_connected", NoMarkup, <<>>, "none")]
  ELSE LET kind == FirstPending(d) IN
  IF kind = "default"
    THEN [users |-> tbl, ud |-> d, ev |-> E("default", "use_menu", NoMarkup, <<>>, "none")]
  ELSE LET plan == TextPlan(kind, text, api.app_key)
           d2   == Consume(d, kind)
       IN
  IF ~plan.ok
    THEN [users |-> tbl, ud |-> d2, ev |-> E(kind, plan.err, NoMarkup, <<>>, "none")]
  ELSE IF out.kind = "raise"
    THEN [users |-> tbl, ud |-> d2,
          ev |-> E(kind, "none", NoMarkup, <<plan.req>>, "RequestException")]
  ELSE [users |-> tbl, ud |-> d2, ev |-> E(kind, "result", plan.markup, <<plan.req>>, "none")]

\* on_btn: [users, ud, ev]
BtnRes(tbl, d, u, data, out) ==
  LET g == db_get_key(tbl, u)
      connected == g.st = "ok"
      E(branch, reply, markup, detail, reqs, raised) ==
        MkEv("btn", u, data, <<>>, branch, reply, markup, detail, reqs, raised)
      same(e) == [users |-> tbl, ud |-> d, ev |-> e]
  IN
  IF g.st = "raise" THEN same(E("db_get_key", "none", NoMarkup, <<>>, <<>>, "InvalidToken"))
  ELSE IF data = "help" THEN same(E("help", "help", menu(connected), <<>>, <<>>, "none"))
  ELSE IF data = "connect"
    THEN [users |-> tbl, ud |-> Arm(clear_states(d), S_WAIT_KEY),
          ev |-> E("connect", "prompt", NoMarkup, <<>>, <<>>, "none")]
  ELSE IF data = "disconnect"
    THEN [users |-> db_delete_user(tbl, u), ud |-> clear_states(d),
          ev |-> E("disconnect", "disconnected", menu(FALSE), <<>>, <<>>, "none")]
  ELSE IF ~connected
    THEN same(E("not_connected", "connect_first", menu(FALSE), <<>>, <<>>, "none"))
  ELSE IF data \in SubMenuButtons
    THEN same(E(data, "submenu", SubMenuOf[data], <<>>, <<>>, "none"))
  ELSE LET api == get_api(tbl, u) IN
  IF api.st = "none"
    THEN same(E("no_api", "key_missing", menu(FALSE), <<>>, <<>>, "none"))
  ELSE IF data \in FetchButtons
    THEN LET req == ApiGetRequest(api.app_key, FetchOf[data].path, EmptyDict)
             kb  == FetchOf[data].markup
         IN IF out.kind = "raise"
              THEN same(E(data, "none", NoMarkup, <<>>, <<req>>, "RequestException"))
            ELSE LET c == ok_api(Pack(out)) IN
              IF c.raised
                THEN same(E(data, "none", NoMarkup, <<>>, <<req>>, "AttributeError"))
              ELSE IF ~c.ok THEN same(E(data, "failed", kb, c.msg, <<req>>, "none"))
              ELSE same(E(data, "listing", kb, <<>>, <<req>>, "none"))
  ELSE IF data \in PromptButtons
    THEN [users |-> tbl, ud |-> Arm(clear_states(d), PromptOf[data]),
          ev |-> E(data, "prompt", NoMarkup, <<>>, <<>>, "none")]
  ELSE same(E("unknown", "unknown_action", menu(TRUE), <<>>, <<>>, "none"))

\* cmd_start that starts the conversation afresh with clear_states
StartResClears(tbl, d, u) ==
  LET g == db_get_key(tbl, u) IN
  [users |-> tbl, ud |-> clear_states(d),
   ev |-> IF g.st = "raise"
            THEN MkEv("start", u, "", <<>>, "db_get_key", "none", NoMarkup, <<>>, <<>>, "InvalidToken")
            ELSE MkEv("start", u, "", <<>>, "start", "welcome", menu(g.st = "ok"), <<>>, <<>>, "none")]

\* cmd_start: [users, ud, ev]
StartRes(tbl, d, u) ==
  LET g == db_get_key(tbl, u) IN
  [users |-> tbl, ud |-> d,
   ev |-> IF g.st = "raise"
            THEN MkEv("start", u, "", <<>>, "db_get_key", "none", NoMarkup, <<>>, <<>>, "InvalidToken")
            ELSE MkEv("start", u, "", <<>>, "start", "welcome", menu(g.st = "ok"), <<>>, <<>>, "none")]

\* cmd_cancel that looks the key up first and clears only for a connected user
CancelResConnectedOnly(tbl, d, u) ==
  LET g == db_get_key(tbl, u) IN
  [users |-> tbl, ud |-> IF g.st = "ok" THEN clear_states(d) ELSE d,
   ev |-> IF g.st = "raise"
            THEN MkEv("cancel", u, "", <<>>, "db_get_key", "none", NoMarkup, <<>>, <<>>, "InvalidToken")
            ELSE MkEv("cancel", u, "", <<>>, "cancel", "cancelled", menu(g.st = "ok"), <<>>, <<>>, "none")]

\* cmd_cancel: [users, ud, ev]
CancelRes(tbl, d, u) ==
  LET g == db_get_key(tbl, u) IN
  [users |-> tbl, ud |-> clear_states(d),
   ev |-> IF g.st = "raise"
            THEN MkEv("cancel", u, "", <<>>, "db_get_key", "none", NoMarkup, <<>>, <<>>, "InvalidToken")
            ELSE MkEv("cancel", u, "", <<>>, "cancel", "cancelled", menu(g.st = "ok"), <<>>, <<>>, "none")]

(***************************************************************************)
(* Spec: the bot                                                           *)
(***************************************************************************)
NoStoreOp == [op |-> "none", user |-> 0, enc |-> EmptyEnc, prev |-> EmptyEnc,
              found |-> FALSE, result |-> EmptyEnc]
StoreIdle == st_op = NoStoreOp /\ last_put = [u \in UserIds |-> EmptyEnc]

NoCall == [name |-> "", outcome |-> TransportFailure]
ClientIdle ==
  /\ cl_in = NoCall
  /\ cl_out = [pending |-> TRUE]
  /\ cl_cls = [pending |-> TRUE]
  /\ transport = <<>>

\* rows the database file holds at start-up, left by earlier runs: every user
\* has none, a key stored under the secret of this process, or a key stored
\* under a secret since rotated
LegacyRow(u, secret) == Row(u, FernetEncrypt(secret, 1, <<"K", "0">>))

InitTables ==
  {{LegacyRow(202, FERNET_SECRET)},
   {LegacyRow(202, FERNET_SECRET), LegacyRow(101, OLD_SECRET)}}

Init ==
  /\ users \in InitTables
  /\ user_data = [u \in UserIds |-> EmptyDict]
  /\ ev = NoEv
  /\ linked = [u \in UserIds |->
                 IF \E r \in users : r.tg_user_id = u THEN EarlierLink ELSE NoLink]
  /\ inflight = NoFlight
  /\ StoreIdle
  /\ ClientIdle

Apply(u, r) ==
  /\ users' = r.users
  /\ user_data' = [user_data EXCEPT ![u] = r.ud]
  /\ ev' = [r.ev EXCEPT !.was = Pending(user_data[u])]
  /\ linked' = [linked EXCEPT ![u] = LinkAfter(linked[u], r.ev)]
  /\ UNCHANGED <<st_op, last_put, cl_in, cl_out, cl_cls, transport, inflight>>

cmd_start(u) == Apply(u, StartRes(users, user_data[u], u))

cmd_cancel(u) == Apply(u, CancelRes(users, user_data[u], u))

\* the transport is consulted only by a handler that hands it a request, and
\* an IV is drawn only by a handler that encrypts
OutcomesIf(sends) == IF sends THEN Outcomes ELSE {TransportFailure}
NoncesIf(encrypts) == IF encrypts THEN Nonces ELSE {1}

on_btn(u, data) ==
  \E out \in OutcomesIf(BtnRes(users, user_data[u], u, data, TransportFailure).ev.reqs # <<>>) :
    Apply(u, BtnRes(users, user_data[u], u, data, out))

on_text(u, raw) ==
  \E out \in OutcomesIf(TextRes(users, user_data[u], u, raw, TransportFailure, 1).ev.reqs # <<>>),
     iv \in NoncesIf(Flag(user_data[u], S_WAIT_KEY)) :
    Apply(u, TextRes(users, user_data[u], u, raw, out, iv))

Next ==
  \E u \in ActiveUsers :
    \/ cmd_start(u)
    \/ cmd_cancel(u)
    \/ \E data \in Buttons : on_btn(u, data)
    \/ \E raw \in Texts : on_text(u, raw)

Spec == Init /\ [][Next]_vars

(***************************************************************************)
(* Properties of the conversation state machine (Spec)                     *)
(***************************************************************************)
\* the stored key of u, as the table holds it
HasRow(tbl, u) == \E r \in tbl : r.tg_user_id = u
Unreadable(tbl, u) == \E r \in tbl : r.tg_user_id = u /\ r.api_key_enc.k # FERNET_SECRET
HasUsableKey(tbl, u) ==
  \E r \in tbl : /\ r.tg_user_id = u
                 /\ r.api_key_enc.k = FERNET_SECRET
                 /\ r.api_key_enc.pt # <<>>

\* C1: a text event that arrives while a prompt of kind k is pending leaves the
\* user Idle and is handled by the branch of k, whether or not the text has the
\* format the branch expects; a format error does not re-arm the prompt.
C1_TextConsumesPrompt ==
  (ev.type = "text" /\ ev.was # {}) =>
    /\ Idle(user_data[ev.user])
    /\ ev.branch \in ev.was

\* C1 witness: a one-token text answered the city-search prompt with a format
\* error, and the user is Idle.
C1_Witness ==
  /\ ev.type = "text"
  /\ ev.was = {S_WAIT_CITY_SEARCH}
  /\ ev.branch = S_WAIT_CITY_SEARCH
  /\ ev.reply = "format_city_search"
  /\ Idle(user_data[ev.user])

\* the button b passes the credential checks on_btn makes before arming a prompt
PassesGate(tbl, u, b) ==
  IF b = "connect" THEN ~Unreadable(tbl, u) ELSE HasUsableKey(tbl, u)

\* C2 (as stated): from any conversation state, a button of a multi-step action
\* for kind k2 leaves the user in AwaitingInput(k2) only.
C2_Original ==
  (ev.type = "btn" /\ ev.data \in PromptButtons) =>
    /\ Pending(user_data[ev.user]) = {PromptOf[ev.data]}
    /\ DOMAIN user_data[ev.user] = {PromptOf[ev.data]}

\* C2 (amended): a button of a multi-step action for kind k2 that passes the
\* credential checks of on_btn (connect: the stored key, if any, decrypts; every
\* other kind: a non-empty key is stored and decrypts) leaves the user in
\* AwaitingInput(k2) only, whatever was pending; a button that does not pass
\* them leaves the pending prompt as it was.
C2_ButtonArmsPrompt ==
  (ev.type = "btn" /\ ev.data \in PromptButtons) =>
    IF PassesGate(users, ev.user, ev.data)
      THEN /\ Pending(user_data[ev.user]) = {PromptOf[ev.data]}
           /\ DOMAIN user_data[ev.user] = {PromptOf[ev.data]}
      ELSE Pending(user_data[ev.user]) = ev.was

\* C2 witness: the bulk-delete button pressed while bulk-add was pending.
C2_Witness ==
  /\ ev.type = "btn"
  /\ ev.data = "acc_del"
  /\ ev.was = {S_WAIT_ADD_ACCOUNTS}
  /\ Pending(user_data[ev.user]) = {S_WAIT_DEL_ACCOUNTS}

\* C3: in every reachable state every user has at most one truthy prompt flag.
C3_AtMostOnePrompt ==
  \A u \in UserIds : Cardinality(Pending(user_data[u])) <= 1

\* C3 witness: a prompt was armed while another one was pending, and one is
\* pending now.
C3_Witness ==
  /\ ev.type = "btn"
  /\ ev.was = {S_WAIT_CH_PASS}
  /\ Pending(user_data[ev.user]) = {S_WAIT_STATIC_FILTER}

\* C4: a cancel event leaves the user Idle, with or without a stored key, and
\* leaves the users table as it was.
C4_CancelForcesIdle ==
  [][ev'.type = "cancel" =>
       /\ Idle(user_data'[ev'.user])
       /\ users' = users]_vars

\* C4 witness: a user with no stored key cancelled the pending connect prompt.
C4_Witness ==
  /\ ev.type = "cancel"
  /\ ev.was = {S_WAIT_KEY}
  /\ ~HasRow(users, ev.user)
  /\ Idle(user_data[ev.user])

(***************************************************************************)
(* SpecStore: db.py                                                        *)
(***************************************************************************)
\* the ciphertexts handed to the store
StoreKeys == {<<"K", "1">>, <<"K", "2">>}
CipherTexts == {FernetEncrypt(FERNET_SECRET, iv, pt) : iv \in Nonces, pt \in StoreKeys}

\* get_user_key_enc: [found, enc]; not found is None
get_user_key_enc(tbl, u) ==
  LET row == SqlSelectOne(tbl, u) IN
  IF row.found /\ Truthy(row.enc)
    THEN [found |-> TRUE, enc |-> row.enc]
    ELSE [found |-> FALSE, enc |-> EmptyEnc]

BotIdle ==
  /\ user_data = [u \in UserIds |-> EmptyDict]
  /\ ev = NoEv
  /\ linked = [u \in UserIds |-> NoLink]
  /\ inflight = NoFlight

InitStore ==
  /\ users = {}
  /\ BotIdle
  /\ StoreIdle
  /\ ClientIdle

StoreFrame == UNCHANGED <<user_data, ev, cl_in, cl_out, cl_cls, transport, linked, inflight>>

\* init_db: CREATE TABLE IF NOT EXISTS keeps the rows of an existing table
init_db ==
  /\ users' = users
  /\ st_op' = [NoStoreOp EXCEPT !.op = "init_db"]
  /\ UNCHANGED last_put
  /\ StoreFrame

set_user_key(u, enc) ==
  /\ users' = SqlUpsert(users, u, enc)
  /\ st_op' = [NoStoreOp EXCEPT !.op = "put", !.user = u, !.enc = enc, !.prev = last_put[u]]
  /\ last_put' = [last_put EXCEPT ![u] = enc]
  /\ StoreFrame

get_user_key(u) ==
  /\ users' = users
  /\ st_op' = [NoStoreOp EXCEPT !.op = "get", !.user = u, !.prev = last_put[u],
                                !.found = get_user_key_enc(users, u).found,
                                !.result = get_user_key_enc(users, u).enc]
  /\ UNCHANGED last_put
  /\ StoreFrame

delete_user(u) ==
  /\ users' = SqlDelete(users, u)
  /\ st_op' = [NoStoreOp EXCEPT !.op = "delete", !.user = u, !.prev = last_put[u]]
  /\ last_put' = [last_put EXCEPT ![u] = EmptyEnc]
  /\ StoreFrame

NextStore ==
  \/ init_db
  \/ \E u \in UserIds, enc \in CipherTexts : set_user_key(u, enc)
  \/ \E u \in UserIds : get_user_key(u)
  \/ \E u \in UserIds : delete_user(u)

SpecStore == InitStore /\ [][NextStore]_vars

\* C5: after any sequence of put, get and delete the table holds at most one
\* row per user, and get(u) returns the value of the latest put(u, .) that no
\* delete(u) followed (absent when there is none).
C5_UpsertLatestWins ==
  /\ \A u \in UserIds :
       /\ Cardinality(RowsOf(users, u)) <= 1
       /\ get_user_key_enc(users, u).found = (last_put[u] # EmptyEnc)
       /\ get_user_key_enc(users, u).enc = last_put[u]
  /\ st_op.op = "get" =>
       /\ st_op.found = (last_put[st_op.user] # EmptyEnc)
       /\ st_op.result = last_put[st_op.user]

\* C5 witness: put(u, a); put(u, b) with a # b, and get(u) is b.
C5_Witness ==
  /\ st_op.op = "put"
  /\ st_op.prev # EmptyEnc
  /\ st_op.prev # st_op.enc
  /\ Cardinality(users) = 2
  /\ get_user_key_enc(users, st_op.user).enc = st_op.enc

\* C6: delete(u) never fails; deleting an absent user leaves the table as it
\* was; a second delete(u) changes nothing more; get(u) is absent afterwards.
C6_DeleteIdempotent ==
  [][st_op'.op = "delete" =>
       LET u == st_op'.user IN
       /\ ~get_user_key_enc(users', u).found
       /\ (RowsOf(users, u) = {} => users' = users)
       /\ SqlDelete(users', u) = users'
       /\ \A v \in UserIds \ {u} : RowsOf(users', v) = RowsOf(users, v)]_vars

\* C6 witness: delete(u) of a user with no row, while another user has one.
C6_Witness ==
  /\ st_op.op = "delete"
  /\ st_op.prev = EmptyEnc
  /\ users # {}
  /\ ~get_user_key_enc(users, st_op.user).found

\* C17: under every interleaving of the puts, gets and deletes of different
\* users, the rows of each user are the result of that user's own operations in
\* their order (one row holding their latest put, none after their delete), and
\* an operation keyed by u leaves the rows of every other user as they were:
\* not changed, not removed, not duplicated.
C17_UserIsolation ==
  /\ [](\A u \in UserIds :
          RowsOf(users, u) = IF last_put[u] = EmptyEnc THEN {} ELSE {Row(u, last_put[u])})
  /\ [][\A v \in UserIds :
          st_op'.user # v => RowsOf(users', v) = RowsOf(users, v)]_vars

\* C17 witness: a user replaced their value while another user held a row with
\* a different value, which is still that user's latest put.
C17_Witness ==
  /\ st_op.op = "put"
  /\ st_op.prev # EmptyEnc
  /\ \E v \in UserIds \ {st_op.user} :
       /\ last_put[v] # EmptyEnc
       /\ last_put[v] # st_op.enc
       /\ RowsOf(users, v) = {Row(v, last_put[v])}

(***************************************************************************)
(* SpecClient: bestproxy_client.py and endpoints.py                        *)
(***************************************************************************)
ENDPOINTS ==
  [status           |-> [method |-> "GET",  path |-> "/api/status"],
   proxy_list       |-> [method |-> "GET",  path |-> "/api/proxy/list"],
   proxy_rotate     |-> [method |-> "POST", path |-> "/api/proxy/rotate"],
   traffic          |-> [method |-> "GET",  path |-> "/api/traffic"],
   whitelist_list   |-> [method |-> "GET",  path |-> "/api/whitelist/list"],
   whitelist_add    |-> [method |-> "POST", path |-> "/api/whitelist/add"],
   whitelist_remove |-> [method |-> "POST", path |-> "/api/whitelist/remove"],
   subusers         |-> [method |-> "GET",  path |-> "/api/subuser/list"],
   subuser_create   |-> [method |-> "POST", path |-> "/api/subuser/create"],
   subuser_disable  |-> [method |-> "POST", path |-> "/api/subuser/disable"]]

\* the names a caller may pass: the configured ones and two that are not
CallNames == (DOMAIN ENDPOINTS) \cup {"nonexistent_op", "acc_list"}

\* the client under test: BestProxyClient(base_url, api_key) with the default timeout
CLIENT_BASE_URL == "https://api.example.com"
CLIENT_API_KEY == <<"K", "1">>
CLIENT_TIMEOUT == 20

\* the lookup with a fallback for an unknown name
LookupWithDefault(name) ==
  IF name \in DOMAIN ENDPOINTS
    THEN [found |-> TRUE, meta |-> ENDPOINTS[name]]
    ELSE [found |-> TRUE, meta |-> [method |-> "GET", path |-> name]]

\* `name not in ENDPOINTS`, then ENDPOINTS[name]
Lookup(name) ==
  IF name \in DOMAIN ENDPOINTS
    THEN [found |-> TRUE, meta |-> ENDPOINTS[name]]
    ELSE [found |-> FALSE, meta |-> [method |-> "", path |-> ""]]

\* BestProxyClient._headers
ClientHeaders ==
  [Authorization |-> <<"Bearer ", CLIENT_API_KEY>>, Accept |-> "application/json"]

\* the status test off by one
IsHttpErrorAbove(status) == status > 400

\* r.status_code >= 400
IsHttpError(status) == status >= 400

\* a transport failure answered by a second attempt
AttemptsWithRetry(req, out) == IF out.kind = "raise" THEN <<req, req>> ELSE <<req>>

\* the requests one call hands to requests.request
Attempts(req, out) == <<req>>

\* the statuses and bodies the stub transport answers with, and its failures
ClientStatuses == {200, 204, 399, 400, 401, 404, 500}
ClientBodies == {B_ok, B_bad, B_alt, B_nocode, B_list, B_html}
ClientFailures ==
  {[kind |-> "raise", http |-> 0, body |-> B_html, error |-> e] :
     e \in {"ConnectionError", "Timeout"}}
ClientOutcomes ==
  ClientFailures \cup [kind : {"resp"}, http : ClientStatuses, body : ClientBodies]

\* r.json(), or {"raw": r.text} when it raises
DecodeBody(body) ==
  IF body.decodes THEN body.json ELSE [t |-> "dict", d |-> [raw |-> body.text]]

\* BestProxyClient.call(name) against a transport that answers `out`:
\* [result, sent]; result is the dict returned, sent the requests made
call(name, out) ==
  LET l == Lookup(name) IN
  IF ~l.found
    THEN [result |-> [ok |-> FALSE, error |-> <<"Endpoint '", name, "' not configured">>],
          sent |-> <<>>]
  ELSE LET req == [method |-> l.meta.method, url |-> <<CLIENT_BASE_URL, l.meta.path>>,
                   headers |-> ClientHeaders, params |-> "None", json |-> "None",
                   timeout |-> CLIENT_TIMEOUT]
       IN
       IF out.kind = "raise"
         THEN [result |-> [ok |-> FALSE, error |-> <<out.error>>], sent |-> Attempts(req, out)]
       ELSE IF IsHttpError(out.http)
         THEN [result |-> [ok |-> FALSE, status |-> out.http, data |-> DecodeBody(out.body)],
               sent |-> Attempts(req, out)]
       ELSE [result |-> [ok |-> TRUE, status |-> out.http, data |-> DecodeBody(out.body)],
             sent |-> Attempts(req, out)]

InitClient ==
  /\ users = {}
  /\ BotIdle
  /\ StoreIdle
  /\ cl_in \in [name : CallNames, outcome : ClientOutcomes]
  /\ cl_out = [pending |-> TRUE]
  /\ cl_cls = [pending |-> TRUE]
  /\ transport = <<>>

ClientFrame == UNCHANGED <<users, user_data, ev, st_op, last_put, cl_in, linked, inflight>>

\* the caller runs BestProxyClient.call on the pending call
Call ==
  /\ "pending" \in DOMAIN cl_out
  /\ cl_out' = call(cl_in.name, cl_in.outcome).result
  /\ transport' = transport \o call(cl_in.name, cl_in.outcome).sent
  /\ UNCHANGED cl_cls
  /\ ClientFrame

\* bot.py classifies the same response: ok_api(_pack(r)), when a response arrived
Classify ==
  /\ "pending" \in DOMAIN cl_cls
  /\ cl_in.outcome.kind = "resp"
  /\ cl_cls' = ok_api(Pack(cl_in.outcome))
  /\ UNCHANGED <<cl_out, transport>>
  /\ ClientFrame

NextClient == Call \/ Classify

SpecClient == InitClient /\ [][NextClient]_vars

CallDone == "pending" \notin DOMAIN cl_out
Classified == "pending" \notin DOMAIN cl_cls

\* the response carries a provider-level failure under a transport-level success
InnerFailure(out) ==
  /\ out.kind = "resp"
  /\ out.http < 400
  /\ out.body.decodes
  /\ out.body.json.t = "dict"
  /\ "code" \in DOMAIN out.body.json.d
  /\ out.body.json.d.code # 200

\* C7: for a response with HTTP status below 400 whose decoded body carries a
\* non-success code (HTTP 200 with {"code": 401, "msg": "bad key"}), the result
\* of call has success false.
C7_TwoLayerCheck ==
  (CallDone /\ InnerFailure(cl_in.outcome) /\ cl_in.name \in DOMAIN ENDPOINTS) =>
    cl_out.ok = FALSE

\* C8: for every response whose HTTP status is >= 400 the result is marked
\* success = false whatever the body holds, by call and by ok_api alike.
C8_HttpErrorFails ==
  /\ (CallDone /\ cl_in.name \in DOMAIN ENDPOINTS /\ cl_in.outcome.kind = "resp"
        /\ cl_in.outcome.http >= 400) =>
       /\ cl_out.ok = FALSE
       /\ cl_out.status = cl_in.outcome.http
  /\ (Classified /\ cl_in.outcome.http >= 400) =>
       /\ ~cl_cls.raised
       /\ ~cl_cls.ok

\* C8 witness: HTTP 400 arrived with a body whose embedded code is 200, and
\* both call and ok_api have classified it.
C8_Witness ==
  /\ CallDone
  /\ Classified
  /\ cl_in.name = "status"
  /\ cl_in.outcome.http = 400
  /\ cl_in.outcome.body = B_ok
  /\ cl_out.ok = FALSE

\* C9: call with a name absent from the registry returns a failure that
\* carries an error and no status, and the transport records no request.
C9_UnknownOperation ==
  (CallDone /\ cl_in.name \notin DOMAIN ENDPOINTS) =>
    /\ cl_out.ok = FALSE
    /\ "error" \in DOMAIN cl_out
    /\ "status" \notin DOMAIN cl_out
    /\ transport = <<>>

\* C9 witness: call("nonexistent_op") has returned.
C9_Witness ==
  /\ CallDone
  /\ cl_in.name = "nonexistent_op"
  /\ cl_out.ok = FALSE
  /\ transport = <<>>

\* C10: when the transport fails, call returns success = false with an error
\* description and no status, after exactly one request attempt.
C10_TransportFailure ==
  (CallDone /\ cl_in.name \in DOMAIN ENDPOINTS /\ cl_in.outcome.kind = "raise") =>
    /\ cl_out.ok = FALSE
    /\ "error" \in DOMAIN cl_out
    /\ cl_out.error = <<cl_in.outcome.error>>
    /\ "status" \notin DOMAIN cl_out
    /\ Len(transport) = 1

\* C10 witness: a configured call whose request timed out has returned.
C10_Witness ==
  /\ CallDone
  /\ cl_in.name = "traffic"
  /\ cl_in.outcome.kind = "raise"
  /\ cl_in.outcome.error = "Timeout"
  /\ Len(transport) = 1
  /\ cl_out.ok = FALSE

\* the body of the response decodes to a JSON object with a code field
HasCode(out) ==
  /\ out.body.decodes
  /\ out.body.json.t = "dict"
  /\ "code" \in DOMAIN out.body.json.d

\* C25: ok_api reports success exactly when the HTTP status is below 400 and
\* the code field of the decoded body equals 200; a response with a status
\* below 400 whose body has no code field (the raw-text fallback of a body that
\* does not decode included) is reported as a failure.
C25_OkApiExact ==
  (Classified /\ cl_in.outcome.kind = "resp") =>
    LET out == cl_in.outcome IN
    /\ cl_cls.ok <=> (out.http < 400 /\ HasCode(out) /\ out.body.json.d.code = 200)
    /\ (out.http < 400 /\ ~HasCode(out)) => (~cl_cls.raised /\ ~cl_cls.ok)

(***************************************************************************)
(* Properties of the handlers' outcomes (Spec)                             *)
(***************************************************************************)
\* C11: every handled event (start, button, text, cancel) ends with a message
\* sent to the user and with no exception leaving the handler, also when the
\* transport fails and when the stored ciphertext does not decrypt.
C11_HandlersAlwaysReply ==
  (ev.type \in {"start", "cancel", "btn", "text"}) =>
    /\ ev.raised = "none"
    /\ ev.reply # "none"

\* C12: after any sequence of events a user has a row in users exactly when
\* they completed a connect input since their last disconnect button; the row
\* decrypts to the text of the most recent such input; and after a disconnect
\* button the user has no row and is Idle.
C12_CredentialFollowsConnect ==
  /\ \A u \in UserIds :
       /\ HasRow(users, u) <=> linked[u].has
       /\ linked[u].known =>
            /\ db_get_key(users, u).st = "ok"
            /\ db_get_key(users, u).key = linked[u].text
  /\ (ev.type = "btn" /\ ev.data = "disconnect") =>
       /\ ~HasRow(users, ev.user)
       /\ Idle(user_data[ev.user])

\* the replies that carry the top-level menu
TopMenuReplies ==
  {"welcome", "cancelled", "help", "disconnected", "connect_first", "key_missing",
   "unknown_action"}
RendersTopMenu == ev.reply \in TopMenuReplies \/ (ev.type = "btn" /\ ev.branch = "back")

\* C13: whenever a handler renders the top-level menu for a user who has no row
\* in users, the keyboard holds the connect and help buttons only: no sub-menu,
\* fetch, prompt or disconnect button.
C13_MenuWithoutCredential ==
  (RendersTopMenu /\ ~HasRow(users, ev.user)) =>
    /\ ev.markup = {"connect", "help"}
    /\ ev.markup \cap (FetchButtons \cup SubMenuButtons \cup (PromptButtons \ {"connect"})) = {}

\* C13 witness: a user with no row sent /start and got the two-button menu.
C13_Witness ==
  /\ ev.type = "start"
  /\ ev.reply = "welcome"
  /\ ~HasRow(users, ev.user)
  /\ ev.markup = {"connect", "help"}

(***************************************************************************)
(* Properties of the text branches (Spec)                                  *)
(***************************************************************************)
\* the handler handed the transport exactly one request, with this method and path
OneRequest(method, path) ==
  /\ Len(ev.reqs) = 1
  /\ ev.reqs[1].method = method
  /\ ev.reqs[1].url = <<API_BASE, path>>

\* the request carries the field k with the value v
Carries(k, v) ==
  /\ k \in DOMAIN ev.reqs[1].payload
  /\ ev.reqs[1].payload[k] = v

\* C14 (as stated): a text that arrives while city-search is pending leaves the
\* user Idle; with at least two whitespace-separated tokens it issues one GET
\* with country_code = the first token and state = the second token; with
\* fewer it is answered by the format error and no request is issued.
C14_Original ==
  (ev.type = "text" /\ ev.was = {S_WAIT_CITY_SEARCH}) =>
    /\ Idle(user_data[ev.user])
    /\ IF Len(Split(ev.text)) >= 2
         THEN /\ OneRequest("GET", "/gateway/ip/dynamic-citys/search")
              /\ Carries("country_code", Split(ev.text)[1])
              /\ Carries("state", Split(ev.text)[2])
         ELSE /\ ev.reqs = <<>>
              /\ ev.reply = "format_city_search"

\* C14 (amended): as above, with country_code = the first token in upper case.
C14_CitySearch ==
  (ev.type = "text" /\ ev.was = {S_WAIT_CITY_SEARCH}) =>
    /\ Idle(user_data[ev.user])
    /\ IF Len(Split(ev.text)) >= 2
         THEN /\ OneRequest("GET", "/gateway/ip/dynamic-citys/search")
              /\ Carries("country_code", Upper(Split(ev.text)[1]))
              /\ Carries("state", Split(ev.text)[2])
         ELSE /\ ev.reqs = <<>>
              /\ ev.reply = "format_city_search"

\* C14 witness: "u1 50" answered the city-search prompt: one GET with
\* country_code U1 and state 50, and the user is Idle.
C14_Witness ==
  /\ ev.type = "text"
  /\ ev.was = {S_WAIT_CITY_SEARCH}
  /\ ev.text = T_limit
  /\ OneRequest("GET", "/gateway/ip/dynamic-citys/search")
  /\ Carries("country_code", <<"U", "1">>)
  /\ Carries("state", <<"5", "0">>)
  /\ Idle(user_data[ev.user])

\* C15 (as stated): a text t that arrives while bulk-add-accounts is pending
\* makes the handler issue exactly one POST to the bulk-add path whose body has
\* accounts = t, and leaves the user Idle.
C15_Original ==
  (ev.type = "text" /\ ev.was = {S_WAIT_ADD_ACCOUNTS}) =>
    /\ OneRequest("POST", "/gateway/whitelist-account/add")
    /\ Carries("accounts", ev.text)
    /\ Idle(user_data[ev.user])

\* C15 (amended): as above, with accounts = t without its leading and trailing
\* whitespace.
C15_BulkAdd ==
  (ev.type = "text" /\ ev.was = {S_WAIT_ADD_ACCOUNTS}) =>
    /\ OneRequest("POST", "/gateway/whitelist-account/add")
    /\ Carries("accounts", Strip(ev.text))
    /\ Idle(user_data[ev.user])

\* C15 witness: " K1" answered the bulk-add prompt: one POST with accounts K1,
\* and the user is Idle.
C15_Witness ==
  /\ ev.type = "text"
  /\ ev.was = {S_WAIT_ADD_ACCOUNTS}
  /\ ev.text = T_key
  /\ OneRequest("POST", "/gateway/whitelist-account/add")
  /\ Carries("accounts", <<"K", "1">>)
  /\ Idle(user_data[ev.user])

(***************************************************************************)
(* Properties of the credential vault (Spec)                               *)
(***************************************************************************)
\* the secrets db_set_key is handed: the stripped texts
Secrets == {Strip(t) : t \in Texts}

IsCipherOutput(enc) ==
  \E key \in {FERNET_SECRET, OLD_SECRET}, iv \in Nonces :
    enc = FernetEncrypt(key, iv, enc.pt)

DataPrompts == StateKeys \ {S_WAIT_KEY}

\* C20: in every state reached by events handled one after the other, a user
\* with a pending prompt other than connect-key has a stored key that decrypts
\* and is not empty, from which get_api builds a client; so no text event that
\* arrives while such a prompt is pending ends in the "Not connected" branch (or
\* in get_api raising), which would leave the prompt pending.
C20_PendingPromptHasClient ==
  /\ \A u \in UserIds :
       Pending(user_data[u]) \cap DataPrompts # {} =>
         /\ HasUsableKey(users, u)
         /\ get_api(users, u).st = "ok"
  /\ (ev.type = "text" /\ ev.was \cap DataPrompts # {}) =>
       /\ ev.branch \notin {"no_api", "get_api"}
       /\ ev.reply # "not_connected"

\* C20 witness: a user who connected in this run answered the pending
\* custom-range prompt, and the text went to that prompt's branch.
C20_Witness ==
  /\ ev.type = "text"
  /\ ev.was = {S_WAIT_FLOW_START}
  /\ ev.branch = S_WAIT_FLOW_START
  /\ linked[ev.user].known
  /\ get_api(users, ev.user).st = "ok"

(***************************************************************************)
(* SpecLoop: bot.py on the event loop                                      *)
(***************************************************************************)
\* the updates delivered: both users send them
LoopButtons == {"connect", "disconnect", "acc_add", "acc_list"}
LoopTexts == {T_key}
LoopUpdates ==
  {Update(t, u, "", <<>>) : t \in {"start", "cancel"}, u \in UserIds}
    \cup {Update("btn", u, b, <<>>) : u \in UserIds, b \in LoopButtons}
    \cup {Update("text", u, "", raw) : u \in UserIds, raw \in LoopTexts}

\* the handler the application selects for the update, run on the table tbl and
\* the user's flags d
Run(e, tbl, d, out, iv) ==
  CASE e.type = "start"  -> StartRes(tbl, d, e.user)
    [] e.type = "cancel" -> CancelRes(tbl, d, e.user)
    [] e.type = "btn"    -> BtnRes(tbl, d, e.user, e.data, out)
    [] e.type = "text"   -> TextRes(tbl, d, e.user, e.raw, out, iv)

\* the handler reaches BestProxyAPI.get or BestProxyAPI.post
Sends(e) == Run(e, users, user_data[e.user], TransportFailure, 1).ev.reqs # <<>>

\* The loop takes an update and runs its coroutine.  A handler that makes no
\* HTTP call runs to its return.  A handler that makes one runs up to
\* requests.get/post, a synchronous call inside the coroutine: the thread of
\* the loop stays inside it until the call returns or times out.
Dispatch(e) ==
  /\ ~inflight.busy
  /\ IF Sends(e)
       THEN /\ inflight' = [busy |-> TRUE, user |-> e.user, event |-> e,
                            d0 |-> user_data[e.user]]
            /\ user_data' = [user_data EXCEPT ![e.user] =
                               Run(e, users, user_data[e.user], TransportFailure, 1).ud]
            /\ UNCHANGED <<users, ev, linked, st_op, last_put, cl_in, cl_out, cl_cls,
                           transport>>
       ELSE \E iv \in NoncesIf(e.type = "text" /\ Flag(user_data[e.user], S_WAIT_KEY)) :
              Apply(e.user, Run(e, users, user_data[e.user], TransportFailure, iv))

\* requests.get/post returns or raises, and the handler runs to its end
Return ==
  /\ inflight.busy
  /\ \E out \in Outcomes :
       LET e == inflight.event
           r == Run(e, users, inflight.d0, out, 1)
       IN /\ ev' = [r.ev EXCEPT !.was = Pending(inflight.d0)]
          /\ users' = r.users
          /\ linked' = [linked EXCEPT ![e.user] = LinkAfter(linked[e.user], r.ev)]
          /\ inflight' = NoFlight
          /\ UNCHANGED <<user_data, st_op, last_put, cl_in, cl_out, cl_cls, transport>>

NextLoop == (\E e \in LoopUpdates : Dispatch(e)) \/ Return

SpecLoop == Init /\ [][NextLoop]_vars

\* C16: while the handler of one user's event is inside an outbound HTTP call,
\* an event of every other user can be handled to completion: its handler is
\* enabled, here /start, which makes no HTTP call and ends in one step.
C16_PendingCallBlocksNobody ==
  inflight.busy =>
    \A v \in UserIds \ {inflight.user} : ENABLED Dispatch(Update("start", v, "", <<>>))

(***************************************************************************)
(* Properties of the credential checks and of the requests (Spec)          *)
(***************************************************************************)
\* C21: for every user in every reachable state, the connected flag that
\* renders the menus and gates the buttons (db_get_key(u) is not None) is true
\* exactly when get_api returns a client for u, also after an empty string was
\* given as connect input.
C21_ConnectedIffClient ==
  \A u \in UserIds :
    (db_get_key(users, u).st = "ok") <=> (get_api(users, u).st = "ok")

\* C22: every request handed to the transport is issued for a user who has a
\* stored key at that moment and carries as app_key exactly that user's key:
\* not the key of another user's row, and not an app_key the user put into
\* their own text (the static-ip filter JSON).
C22_RequestCarriesOwnKey ==
  \A i \in 1..Len(ev.reqs) :
    LET own == db_get_key(users, ev.user)
        sent == ev.reqs[i].payload
    IN /\ HasRow(users, ev.user)
       /\ own.st = "ok"
       /\ "app_key" \in DOMAIN sent
       /\ sent["app_key"] = own.key
       /\ \A v \in UserIds \ {ev.user} :
            (db_get_key(users, v).st = "ok" /\ db_get_key(users, v).key # own.key) =>
              sent["app_key"] # db_get_key(users, v).key
       /\ (ev.type = "text" /\ JsonLoadsDict(Strip(ev.text)).ok
             /\ "app_key" \in DOMAIN JsonLoadsDict(Strip(ev.text)).obj
             /\ JsonLoadsDict(Strip(ev.text)).obj["app_key"] # own.key) =>
            sent["app_key"] # JsonLoadsDict(Strip(ev.text)).obj["app_key"]

\* C22 witness: the filter {"app_key":"K9"} answered the static-ip prompt of a
\* user whose key is K1, while another user's row holds K0: the GET carries K1.
C22_Witness ==
  /\ ev.type = "text"
  /\ ev.was = {S_WAIT_STATIC_FILTER}
  /\ ev.text = T_filter
  /\ Len(ev.reqs) = 1
  /\ db_get_key(users, ev.user).key = <<"K", "1">>
  /\ ev.reqs[1].payload["app_key"] = <<"K", "1">>
  /\ \E v \in UserIds \ {ev.user} : db_get_key(users, v).key = <<"K", "0">>

\* the buttons that neither arm a prompt nor touch the table
StatelessButtons == {"help"} \cup SubMenuButtons \cup FetchButtons

\* e is a start event or the press of a stateless button
IsStateless(e) ==
  e.type = "start" \/ (e.type = "btn" /\ e.data \in StatelessButtons)

\* C23: a start event and the stateless buttons (help, back, the four sub-menu
\* buttons, the five fetch buttons) leave the user's flags and the users table
\* as they were, whatever their outcome; so a prompt pending before them is
\* still pending after them and the next text event consumes it in its branch.
C23_StatelessEventsFrame ==
  [][/\ IsStateless(ev') =>
          /\ user_data' = user_data
          /\ users' = users
     /\ (IsStateless(ev) /\ ev.was # {} /\ ev'.type = "text" /\ ev'.user = ev.user) =>
          /\ ev'.was = ev.was
          /\ ev'.branch \in ev.was
          /\ Idle(user_data'[ev'.user])]_vars

\* C23 witness: /start arrived while the change-quota prompt was pending, and
\* the prompt is still pending with the key in place.
C23_Witness ==
  /\ ev.type = "start"
  /\ ev.was = {S_WAIT_CH_LIMIT}
  /\ Pending(user_data[ev.user]) = {S_WAIT_CH_LIMIT}
  /\ HasUsableKey(users, ev.user)

\* C24: a text event that arrives while the user is Idle hands no request to
\* the transport, leaves the users table and the user's flags as they were and
\* leaves the user Idle, with or without a stored key.
C24_IdleTextFrame ==
  [][(ev'.type = "text" /\ ev'.was = {}) =>
       /\ ev'.reqs = <<>>
       /\ users' = users
       /\ user_data' = user_data
       /\ Idle(user_data'[ev'.user])]_vars

\* C24 witness: a connected user whose last prompt was consumed sent a text
\* while Idle and was pointed to the menu.
C24_Witness ==
  /\ ev.type = "text"
  /\ ev.was = {}
  /\ ev.branch = "default"
  /\ HasUsableKey(users, ev.user)
  /\ DOMAIN user_data[ev.user] # {}
  /\ ev.reqs = <<>>

====
